---- MODULE Spec2Model ----
(***************************************************************************)
(* Webhook ingestion of the mr_stripe and stripe_payments plugins.         *)
(*                                                                         *)
(* Each inbound POST /stripe/webhook is an independent coroutine; the      *)
(* coroutines interleave at the awaits on the external collaborators       *)
(* (service_manager.process_purchase, process_subscription_event,          *)
(* allocate_credits).  A request occupies a slot from its arrival to its   *)
(* response.  The provider redelivers an event with the same id and the    *)
(* same payload, so an event is identified with its entry in a fixed       *)
(* catalogue.                                                              *)
(***************************************************************************)
EXTENDS Integers, Sequences, FiniteSets, TLC

\* Total number of webhook deliveries the provider makes in a behaviour.
MaxDeliveries == 3
\* Number of requests that can be in flight at the same time.
NumSlots == 2

Slots == 1..NumSlots

\* Python's None, and an absent key of a dict read with .get().
Null == "null"

-----------------------------------------------------------------------------
(* The provider's events.  data.object carries the keys the handlers read;  *)
(* keys that do not exist on an object type are Null (what .get() returns). *)

EventIds ==
    {"evt_pay", "evt_pay2", "evt_sub", "evt_setup", "evt_invoice",
     "evt_updated", "evt_updated_noperiod", "evt_deleted", "evt_other"}

BlankObject ==
    [id |-> Null, mode |-> Null, client_reference_id |-> Null,
     amount_total |-> 0, currency |-> Null, metadata |-> Null,
     payment_intent |-> Null, subscription |-> Null, status |-> Null,
     cancel_at_period_end |-> Null, current_period_end |-> Null]

Session(id, mode, user, amount, currency, metadata, pi, sub) ==
    [BlankObject EXCEPT !.id = id, !.mode = mode, !.client_reference_id = user,
                        !.amount_total = amount, !.currency = currency,
                        !.metadata = metadata, !.payment_intent = pi,
                        !.subscription = sub]

EventOf(eid) ==
    CASE eid = "evt_pay" ->
           [id |-> eid, type |-> "checkout.session.completed",
            object |-> Session("cs_1", "payment", "u1", 500, "usd", "md_empty", "pi_1", Null)]
      [] eid = "evt_pay2" ->
           [id |-> eid, type |-> "checkout.session.completed",
            object |-> Session("cs_2", "payment", Null, 1999, "eur", "md_order", "pi_2", Null)]
      [] eid = "evt_sub" ->
           [id |-> eid, type |-> "checkout.session.completed",
            object |-> Session("cs_3", "subscription", "u2", 900, "usd", "md_plan", Null, "sub_1")]
      [] eid = "evt_setup" ->
           [id |-> eid, type |-> "checkout.session.completed",
            object |-> Session("cs_4", "setup", "u3", 0, Null, "md_empty", Null, Null)]
      [] eid = "evt_invoice" ->
           [id |-> eid, type |-> "invoice.paid",
            object |-> [BlankObject EXCEPT !.id = "in_1", !.subscription = "sub_1"]]
      [] eid = "evt_updated" ->
           [id |-> eid, type |-> "customer.subscription.updated",
            object |-> [BlankObject EXCEPT !.id = "sub_1", !.status = "active",
                                           !.cancel_at_period_end = "True",
                                           !.current_period_end = "1700000000"]]
      [] eid = "evt_updated_noperiod" ->
           [id |-> eid, type |-> "customer.subscription.updated",
            object |-> [BlankObject EXCEPT !.id = "sub_2", !.status = "past_due"]]
      [] eid = "evt_deleted" ->
           [id |-> eid, type |-> "customer.subscription.deleted",
            object |-> [BlankObject EXCEPT !.id = "sub_1"]]
      [] OTHER ->
           [id |-> eid, type |-> "payment_intent.succeeded",
            object |-> [BlankObject EXCEPT !.id = "pi_1"]]

\* What the signature check of a request can find.
Verifications == {"valid", "invalid_signature", "stale_timestamp", "malformed_payload"}

\* Outcomes of the secondary stripe.Subscription.retrieve lookup.
RetrieveOutcomes == {"retrieved", "fails"}

Handlers == {"mr_stripe", "stripe_payments"}

-----------------------------------------------------------------------------
(* Results of calls: a value returned or an exception raised.              *)

Return(v) == [raised |-> FALSE, exc |-> Null, value |-> v]
Raise(e) == [raised |-> TRUE, exc |-> e, value |-> Null]

\* stripe.Webhook.construct_event: the event, or an exception.
construct_event_trusting(sig, eid) == Return(EventOf(eid))

construct_event(sig, eid) ==
    CASE sig = "valid" -> Return(EventOf(eid))
      [] sig = "malformed_payload" -> Raise("ValueError")
      [] OTHER -> Raise("SignatureVerificationError")

\* datetime.fromtimestamp(ts).isoformat(); a ts of None is a TypeError.
IsoFormat(ts) ==
    CASE ts = "1700000000" -> "2023-11-14T22:13:20"
      [] ts = "1702592000" -> "2023-12-14T22:13:20"
      [] OTHER -> Null

\* session['amount_total'] / 100: the major-unit value with its two decimals
\* (the float the division yields is the double nearest to this decimal).
MinorToMajor_unconverted(cents) == [units |-> cents, hundredths |-> 0]

MinorToMajor(cents) == [units |-> cents \div 100, hundredths |-> cents % 100]

-----------------------------------------------------------------------------
(* mr_stripe/mod.py: process_single_payment, up to its await.              *)

\* The condition that selects a one-time payment.
IsSinglePayment(event) ==
    event.type = "checkout.session.completed" /\ event.object.mode = "payment"

\* The keyword arguments of service_manager.process_purchase.
PurchaseArgs(session) ==
    [user_id |-> session.client_reference_id,
     transaction_id |-> session.id,
     amount |-> MinorToMajor(session.amount_total),
     currency |-> session.currency,
     metadata |-> session.metadata,
     source |-> "stripe"]

-----------------------------------------------------------------------------
(* mr_stripe/mod.py: normalize_subscription_event.  The 'timestamp' key    *)
(* (datetime.now()) is left out: nothing reads it.                         *)

BlankNormalized(event_type) ==
    [original_type |-> event_type, provider |-> "stripe", event_type |-> Null,
     username |-> Null, subscription_id |-> Null, metadata |-> Null,
     invoice_id |-> Null, period_start |-> Null, period_end |-> Null,
     status |-> Null, cancel_at_period_end |-> Null,
     current_period_end |-> Null]

\* Whether the local stripe_subscription is bound when the logging call
\* before the lookup reads it: its only assignment is inside the try block
\* that follows.
StripeSubscriptionBoundAtLog == FALSE

\* The period bounds stripe.Subscription.retrieve answers with.
RetrievedSubscription ==
    [current_period_start |-> "1700000000", current_period_end |-> "1702592000"]

NormalizeCheckout(event, base) ==
    IF event.object.mode = "subscription"
    THEN Return([base EXCEPT !.event_type = "subscription_created",
                             !.username = event.object.client_reference_id,
                             !.subscription_id = event.object.subscription,
                             !.metadata = event.object.metadata])
    ELSE Return(base)

NormalizeInvoicePaid(event, base, retrieve) ==
    LET renewed == [base EXCEPT !.event_type = "subscription_renewed",
                                !.subscription_id = event.object.subscription,
                                !.invoice_id = event.object.id]
    IN  IF ~StripeSubscriptionBoundAtLog
        THEN Raise("UnboundLocalError")
        ELSE IF retrieve = "retrieved"
             THEN Return([renewed EXCEPT
                    !.period_start = IsoFormat(RetrievedSubscription.current_period_start),
                    !.period_end = IsoFormat(RetrievedSubscription.current_period_end)])
             ELSE Return(renewed)

NormalizeUpdated(event, base) ==
    IF event.object.current_period_end = Null
    THEN Raise("TypeError")
    ELSE Return([base EXCEPT !.event_type = "subscription_updated",
                             !.subscription_id = event.object.id,
                             !.status = event.object.status,
                             !.cancel_at_period_end =
                                 IF event.object.cancel_at_period_end = Null
                                 THEN "False"
                                 ELSE event.object.cancel_at_period_end,
                             !.current_period_end =
                                 IsoFormat(event.object.current_period_end)])

NormalizeDeleted(event, base) ==
    Return([base EXCEPT !.event_type = "subscription_canceled",
                        !.subscription_id = event.object.id])

normalize_subscription_event(event, retrieve) ==
    LET base == BlankNormalized(event.type)
    IN  CASE event.type = "checkout.session.completed" -> NormalizeCheckout(event, base)
          [] event.type = "invoice.paid" -> NormalizeInvoicePaid(event, base, retrieve)
          [] event.type = "customer.subscription.updated" -> NormalizeUpdated(event, base)
          [] event.type = "customer.subscription.deleted" -> NormalizeDeleted(event, base)
          [] OTHER -> Return(base)

-----------------------------------------------------------------------------
(* mr_stripe/router.py: the pieces of handle_webhook.                      *)

\* The event types handed to the normalizer.
SubscriptionEventTypes ==
    {"checkout.session.completed", "invoice.paid",
     "customer.subscription.updated", "customer.subscription.deleted"}

\* if normalized_event.get('event_type')
ShouldForward_always(normalized) == TRUE

ShouldForward(normalized) == normalized.event_type # Null

\* The argument of service_manager.process_subscription_event.
SubscriptionArgs(normalized, event) ==
    [provider |-> "stripe", normalized_event |-> normalized, original_event |-> event]

\* A response: whether an exception left the handler, the HTTP status the
\* framework answers with, and the 'status' and 'message' of the body.
Response(escaped, http, status, message) ==
    [escaped |-> escaped, http |-> http, status |-> status, message |-> message]

NoResponse == Response(FALSE, 0, Null, Null)

\* return {"status": "success"}
handle_webhook_success == Response(FALSE, 200, "success", Null)

\* except Exception as e: return {"status": "error", "message": str(e)}
handle_webhook_except_reraise(exc) == Response(TRUE, 500, Null, exc)

handle_webhook_except_client_error(exc) == Response(FALSE, 400, "error", exc)

handle_webhook_except(exc) == Response(FALSE, 200, "error", exc)

-----------------------------------------------------------------------------
(* stripe_payments: handle_webhook has no try block, process_payment       *)
(* re-raises; an exception leaves the handler and the framework answers    *)
(* with a server error.  A handler that returns None answers 200.          *)
(* router.py never imports stripe, so as the file stands the name lookup   *)
(* fails before any of this runs; the body is modelled as written, with    *)
(* the name bound, which is the case that can reach a collaborator.        *)

sp_escapes(exc) == Response(TRUE, 500, Null, exc)

sp_returns == Response(FALSE, 200, Null, Null)

\* The keyword arguments of service_manager.allocate_credits.
CreditArgs(session) ==
    [user_id |-> session.client_reference_id,
     amount |-> MinorToMajor(session.amount_total),
     source |-> "stripe",
     transaction_id |-> session.id,
     metadata |-> [payment_intent |-> session.payment_intent,
                   currency |-> session.currency]]

-----------------------------------------------------------------------------
(* mr_stripe/mod.py: issue_stripe_refund.  The whole body is inside one    *)
(* try; the provider is called up to three times (Subscription.retrieve,   *)
(* Invoice.retrieve, Refund.create) and each call returns or raises.       *)

\* Number of issue_stripe_refund calls made in a behaviour.
MaxRefundCalls == 2

\* refund_amount is a Decimal: a finite value, held in thousandths of the
\* major unit, or NaN.
Amount(mills) == [finite |-> TRUE, mills |-> mills]
NaNAmount == [finite |-> FALSE, mills |-> 0]

RefundAmounts ==
    {Amount(-1000), Amount(0), Amount(4999), Amount(5000), Amount(5001),
     Amount(19990), NaNAmount}

\* invoice.amount_paid, in minor units.
InvoiceAmounts == {0, 500, 1999}

\* subscription.latest_invoice and invoice.charge: an id, or None.
LatestInvoices == {Null, "in_1"}
Charges == {Null, "ch_1"}

\* int(x) of a quotient: truncation toward zero.
TruncDiv(n, d) == IF n >= 0 THEN n \div d ELSE -((-n) \div d)

\* refund_amount_cents = int(refund_amount * 100); int() of NaN raises.
ToCents(amount) ==
    IF amount.finite THEN Return(TruncDiv(amount.mills, 10)) ELSE Raise("ValueError")

\* if refund_amount_cents > invoice.amount_paid
ExceedsInvoice_unchecked(cents, amount_paid) == FALSE

ExceedsInvoice(cents, amount_paid) == cents > amount_paid

\* What issue_stripe_refund returns.
RefundFailure(error) == [success |-> FALSE, error |-> error]
RefundSuccess == [success |-> TRUE, error |-> Null]
NoRefundResult == [success |-> FALSE, error |-> "pending"]

\* pc: where the call is; amount: refund_amount; sub_found, inv_found: the
\* retrievals returned; latest_invoice, charge, amount_paid: what they
\* returned; cents: the amount sent to Refund.create; creates: Refund.create
\* calls of this call; created: refunds the provider made for this call;
\* calls: issue_stripe_refund calls so far.
RefundIdle ==
    [pc |-> "idle", amount |-> Amount(0), sub_found |-> FALSE, inv_found |-> FALSE,
     latest_invoice |-> Null, charge |-> Null, amount_paid |-> 0, cents |-> 0,
     creates |-> 0, created |-> 0, escaped |-> FALSE,
     result |-> NoRefundResult, calls |-> 0]

-----------------------------------------------------------------------------
(* State.                                                                  *)

VARIABLES
    req,         \* req[r]: the request in slot r (see Idle for its fields)
    invoked,     \* invoked[eid]: collaborator calls mr_stripe made for event eid
    failed,      \* failed[eid]: a collaborator mr_stripe called for eid raised
    deliveries,  \* webhook deliveries made so far
    refund       \* the issue_stripe_refund call in progress (see RefundIdle)

vars == <<req, invoked, failed, deliveries, refund>>

webhookVars == <<req, invoked, failed, deliveries>>

NotNormalized == [called |-> FALSE, result |-> Raise(Null)]

\* pc: where the coroutine is; sig: what verification will find; calls: the
\* collaborator calls of this request, in order; single: what
\* process_single_payment did ("True", "False", "raised"); collab: the outcome
\* of the awaited collaborator; norm: the normalizer's result; resp: the answer.
Idle ==
    [pc |-> "idle", handler |-> "mr_stripe", eid |-> "evt_other", sig |-> "valid",
     calls |-> <<>>, single |-> Null, collab |-> "none",
     norm |-> NotNormalized, resp |-> NoResponse]

Init ==
    /\ req = [r \in Slots |-> Idle]
    /\ invoked = [e \in EventIds |-> 0]
    /\ failed = [e \in EventIds |-> FALSE]
    /\ deliveries = 0
    /\ refund = RefundIdle

Call(op, args) == [op |-> op, args |-> args]

\* The request of slot r ends: rec is its record, resp the answer.
Finish(r, rec, resp) ==
    req' = [req EXCEPT ![r] = [rec EXCEPT !.pc = "done", !.resp = resp]]

\* The requests that arrive: every catalogue event properly signed, and a
\* body that claims a completed payment but fails verification in each of the
\* three ways.
Requests ==
    {<<e, "valid">> : e \in EventIds}
      \cup {<<"evt_pay", k>> : k \in Verifications \ {"valid"}}

\* stripe_payments reads of an event only whether its type is
\* checkout.session.completed, and then the session: it is sent a payment, a
\* subscription checkout and one event of another type.
RequestsTo(h) ==
    IF h = "mr_stripe"
    THEN Requests
    ELSE {q \in Requests : q[1] \in {"evt_pay", "evt_sub", "evt_invoice"}}

\* A request carrying event eid is posted to handler h; sig is what the
\* signature check will find in the body and header.  It takes the first
\* free slot.
Deliver(r, h, eid, sig) ==
    /\ req[r].pc = "idle"
    /\ \A q \in Slots : q < r => req[q].pc # "idle"
    /\ deliveries < MaxDeliveries
    /\ req' = [req EXCEPT ![r] =
                 [Idle EXCEPT !.pc = "received", !.handler = h, !.eid = eid, !.sig = sig]]
    /\ deliveries' = deliveries + 1
    /\ UNCHANGED <<invoked, failed>>

\* mr_stripe handle_webhook from process_single_payment on, up to the first
\* await on a collaborator or the return.
RouteEvent(r, event) ==
    IF IsSinglePayment(event)
    THEN /\ req' = [req EXCEPT ![r] =
                      [@ EXCEPT !.pc = "await_purchase",
                                !.calls = Append(@, Call("process_purchase",
                                                         PurchaseArgs(event.object))),
                                !.collab = "pending"]]
         /\ invoked' = [invoked EXCEPT ![event.id] = @ + 1]
         /\ UNCHANGED failed
    ELSE LET rec == [req[r] EXCEPT !.single = "False"]
         IN  IF event.type \in SubscriptionEventTypes
             THEN \E retrieve \in RetrieveOutcomes :
                    LET n == normalize_subscription_event(event, retrieve)
                        normed == [rec EXCEPT !.norm = [called |-> TRUE, result |-> n]]
                    IN  IF n.raised
                        THEN /\ Finish(r, normed, handle_webhook_except(n.exc))
                             /\ UNCHANGED <<invoked, failed>>
                        ELSE IF ShouldForward(n.value)
                             THEN /\ req' = [req EXCEPT ![r] =
                                       [normed EXCEPT
                                          !.pc = "await_subscription",
                                          !.calls = Append(@,
                                              Call("process_subscription_event",
                                                   SubscriptionArgs(n.value, event))),
                                          !.collab = "pending"]]
                                  /\ invoked' = [invoked EXCEPT ![event.id] = @ + 1]
                                  /\ UNCHANGED failed
                             ELSE /\ Finish(r, normed, handle_webhook_success)
                                  /\ UNCHANGED <<invoked, failed>>
             ELSE /\ Finish(r, rec, handle_webhook_success)
                  /\ UNCHANGED <<invoked, failed>>

\* A handler that keeps a ledger of the event ids it has dispatched and
\* never releases an entry.
MR_HandleWebhook_ledger(r) ==
    /\ req[r].pc = "received"
    /\ req[r].handler = "mr_stripe"
    /\ LET v == construct_event(req[r].sig, req[r].eid)
       IN  IF v.raised
           THEN /\ Finish(r, req[r], handle_webhook_except(v.exc))
                /\ UNCHANGED <<invoked, failed>>
           ELSE IF invoked[req[r].eid] > 0
                THEN /\ Finish(r, req[r], handle_webhook_success)
                     /\ UNCHANGED <<invoked, failed>>
                ELSE RouteEvent(r, v.value)
    /\ UNCHANGED deliveries

\* mr_stripe handle_webhook: verification, then routing.
MR_HandleWebhook(r) ==
    /\ req[r].pc = "received"
    /\ req[r].handler = "mr_stripe"
    /\ LET v == construct_event(req[r].sig, req[r].eid)
       IN  IF v.raised
           THEN /\ Finish(r, req[r], handle_webhook_except(v.exc))
                /\ UNCHANGED <<invoked, failed>>
           ELSE RouteEvent(r, v.value)
    /\ UNCHANGED deliveries

\* process_purchase returns: process_single_payment returns True, the
\* subscription branch is skipped.
MR_PurchaseReturns(r) ==
    /\ req[r].pc = "await_purchase"
    /\ Finish(r, [req[r] EXCEPT !.single = "True", !.collab = "returned"],
              handle_webhook_success)
    /\ UNCHANGED <<invoked, failed, deliveries>>

\* process_purchase raises: process_single_payment logs and re-raises, the
\* handler's except clause answers.
MR_PurchaseRaises(r) ==
    /\ req[r].pc = "await_purchase"
    /\ Finish(r, [req[r] EXCEPT !.single = "raised", !.collab = "raised"],
              handle_webhook_except("PurchaseError"))
    /\ failed' = [failed EXCEPT ![req[r].eid] = TRUE]
    /\ UNCHANGED <<invoked, deliveries>>

MR_SubscriptionReturns(r) ==
    /\ req[r].pc = "await_subscription"
    /\ Finish(r, [req[r] EXCEPT !.collab = "returned"], handle_webhook_success)
    /\ UNCHANGED <<invoked, failed, deliveries>>

\* process_subscription_event raises: the inner except clause logs it and
\* the handler goes on to its return.
MR_SubscriptionRaises(r) ==
    /\ req[r].pc = "await_subscription"
    /\ Finish(r, [req[r] EXCEPT !.collab = "raised"], handle_webhook_success)
    /\ failed' = [failed EXCEPT ![req[r].eid] = TRUE]
    /\ UNCHANGED <<invoked, deliveries>>

\* stripe_payments handle_webhook: verification, then process_payment up to
\* its await.
SP_HandleWebhook(r) ==
    /\ req[r].pc = "received"
    /\ req[r].handler = "stripe_payments"
    /\ LET v == construct_event(req[r].sig, req[r].eid)
       IN  IF v.raised
           THEN Finish(r, req[r], sp_escapes(v.exc))
           ELSE IF v.value.type = "checkout.session.completed"
                THEN req' = [req EXCEPT ![r] =
                               [@ EXCEPT !.pc = "await_credits",
                                         !.calls = Append(@, Call("allocate_credits",
                                                            CreditArgs(v.value.object))),
                                         !.collab = "pending"]]
                ELSE Finish(r, req[r], sp_returns)
    /\ UNCHANGED <<invoked, failed, deliveries>>

SP_AllocateReturns(r) ==
    /\ req[r].pc = "await_credits"
    /\ Finish(r, [req[r] EXCEPT !.collab = "returned"], sp_returns)
    /\ UNCHANGED <<invoked, failed, deliveries>>

SP_AllocateRaises(r) ==
    /\ req[r].pc = "await_credits"
    /\ Finish(r, [req[r] EXCEPT !.collab = "raised"], sp_escapes("CreditError"))
    /\ UNCHANGED <<invoked, failed, deliveries>>

\* The response has been sent; the slot is free again.
Complete(r) ==
    /\ req[r].pc = "done"
    /\ req' = [req EXCEPT ![r] = Idle]
    /\ UNCHANGED <<invoked, failed, deliveries>>

\* issue_stripe_refund is called: the try block is entered and
\* stripe.Subscription.retrieve is called.
IssueRefund(amount) ==
    /\ refund.pc = "idle"
    /\ refund.calls < MaxRefundCalls
    /\ refund' = [RefundIdle EXCEPT !.pc = "retrieve_subscription",
                                    !.amount = amount,
                                    !.calls = refund.calls + 1]
    /\ UNCHANGED webhookVars

\* The call returns result; no exception leaves it.
RefundReturn(rec, result) ==
    refund' = [rec EXCEPT !.pc = "returned", !.result = result]

\* except Exception as e: return {"success": False, "error": str(e)}
RefundExcept(rec, exc) == RefundReturn(rec, RefundFailure(exc))

RF_SubscriptionRaises ==
    /\ refund.pc = "retrieve_subscription"
    /\ RefundExcept(refund, "StripeError")
    /\ UNCHANGED webhookVars

\* Subscription.retrieve returns; without a latest invoice the call ends,
\* with one stripe.Invoice.retrieve is called.
RF_SubscriptionRetrieved(latest_invoice) ==
    /\ refund.pc = "retrieve_subscription"
    /\ LET rec == [refund EXCEPT !.sub_found = TRUE, !.latest_invoice = latest_invoice]
       IN  IF latest_invoice = Null
           THEN RefundReturn(rec, RefundFailure("No invoice found for subscription"))
           ELSE refund' = [rec EXCEPT !.pc = "retrieve_invoice"]
    /\ UNCHANGED webhookVars

RF_InvoiceRaises ==
    /\ refund.pc = "retrieve_invoice"
    /\ RefundExcept(refund, "StripeError")
    /\ UNCHANGED webhookVars

\* Invoice.retrieve returns: the charge test, the conversion to cents, the
\* amount test, and then the call of stripe.Refund.create.
RF_InvoiceRetrieved(charge, amount_paid) ==
    /\ refund.pc = "retrieve_invoice"
    /\ LET rec == [refund EXCEPT !.inv_found = TRUE, !.charge = charge,
                                 !.amount_paid = amount_paid]
           cents == ToCents(refund.amount)
       IN  IF charge = Null
           THEN RefundReturn(rec, RefundFailure("No charge found for invoice"))
           ELSE IF cents.raised
                THEN RefundExcept(rec, cents.exc)
                ELSE IF ExceedsInvoice(cents.value, amount_paid)
                     THEN RefundReturn(rec,
                              RefundFailure("Refund amount exceeds invoice amount"))
                     ELSE refund' = [rec EXCEPT !.pc = "create_refund",
                                                !.cents = cents.value,
                                                !.creates = @ + 1]
    /\ UNCHANGED webhookVars

\* Refund.create returns the refund the provider made.
RF_CreateReturns ==
    /\ refund.pc = "create_refund"
    /\ RefundReturn([refund EXCEPT !.created = @ + 1], RefundSuccess)
    /\ UNCHANGED webhookVars

\* Refund.create raises: the provider made no refund.
RF_CreateRaises ==
    /\ refund.pc = "create_refund"
    /\ RefundExcept(refund, "StripeError")
    /\ UNCHANGED webhookVars

\* The caller has the result; the next call can start.
RF_Complete ==
    /\ refund.pc = "returned"
    /\ refund' = [RefundIdle EXCEPT !.calls = refund.calls]
    /\ UNCHANGED webhookVars

Next ==
    \/ \E r \in Slots, h \in Handlers :
          \E q \in RequestsTo(h) : Deliver(r, h, q[1], q[2]) /\ UNCHANGED refund
    \/ \E r \in Slots : MR_HandleWebhook(r) /\ UNCHANGED refund
    \/ \E r \in Slots : MR_PurchaseReturns(r) /\ UNCHANGED refund
    \/ \E r \in Slots : MR_PurchaseRaises(r) /\ UNCHANGED refund
    \/ \E r \in Slots : MR_SubscriptionReturns(r) /\ UNCHANGED refund
    \/ \E r \in Slots : MR_SubscriptionRaises(r) /\ UNCHANGED refund
    \/ \E r \in Slots : SP_HandleWebhook(r) /\ UNCHANGED refund
    \/ \E r \in Slots : SP_AllocateReturns(r) /\ UNCHANGED refund
    \/ \E r \in Slots : SP_AllocateRaises(r) /\ UNCHANGED refund
    \/ \E r \in Slots : Complete(r) /\ UNCHANGED refund

Spec == Init /\ [][Next]_vars

NextRefund ==
    \/ \E amount \in RefundAmounts : IssueRefund(amount)
    \/ RF_SubscriptionRaises
    \/ \E latest_invoice \in LatestInvoices : RF_SubscriptionRetrieved(latest_invoice)
    \/ RF_InvoiceRaises
    \/ \E charge \in Charges, amount_paid \in InvoiceAmounts :
          RF_InvoiceRetrieved(charge, amount_paid)
    \/ RF_CreateReturns
    \/ RF_CreateRaises
    \/ RF_Complete

\* The refund service on its own: the webhook state stays as constructed.
SpecRefund == Init /\ [][NextRefund]_vars

-----------------------------------------------------------------------------
(* Vocabulary of the properties.                                           *)

MR(r) == req[r].handler = "mr_stripe" /\ req[r].pc # "idle"
Verified(r) == req[r].sig = "valid"
Ev(r) == EventOf(req[r].eid)
Done(r) == req[r].pc = "done"
Handled(r) == req[r].pc \notin {"idle", "received"}

\* The recognized set, and the collaborator and domain type of each member.
Recognized(event) ==
    \/ event.type = "checkout.session.completed"
         /\ event.object.mode \in {"payment", "subscription"}
    \/ event.type \in {"invoice.paid", "customer.subscription.updated",
                       "customer.subscription.deleted"}

ExpectedOp(event) ==
    IF event.type = "checkout.session.completed" /\ event.object.mode = "payment"
    THEN "process_purchase"
    ELSE "process_subscription_event"

ExpectedDomainType(event) ==
    CASE event.type = "checkout.session.completed" /\ event.object.mode = "payment"
           -> "purchase_completed"
      [] event.type = "checkout.session.completed" /\ event.object.mode = "subscription"
           -> "subscription_created"
      [] event.type = "invoice.paid" -> "subscription_renewed"
      [] event.type = "customer.subscription.updated" -> "subscription_updated"
      [] event.type = "customer.subscription.deleted" -> "subscription_canceled"
      [] OTHER -> Null

OpsOf(r) == {req[r].calls[i].op : i \in 1..Len(req[r].calls)}

\* C1: however often a verified event id is delivered to mr_stripe, at most
\* one collaborator call is made for it in total.
C1_ExactlyOnce ==
    \A e \in EventIds : invoked[e] <= 1

\* C2: a verified request to mr_stripe that has ended was answered with HTTP
\* 200 and no exception left the handler, whatever the collaborator or the
\* normalizer did.
C2_AckIndependent ==
    \A r \in Slots :
        (MR(r) /\ Verified(r) /\ Done(r))
            => (req[r].resp.http = 200 /\ ~req[r].resp.escaped)

\* Two verified requests have ended, one whose collaborator raised and one
\* whose normalizer raised.
C2_Witness ==
    \E r, q \in Slots :
        /\ MR(r) /\ Verified(r) /\ Done(r) /\ req[r].collab = "raised"
        /\ MR(q) /\ Verified(q) /\ Done(q)
        /\ req[q].norm.called /\ req[q].norm.result.raised

\* C3 as stated: a request mr_stripe could not verify is answered with a
\* client-error (4xx) status.
C3_ClientError ==
    \A r \in Slots :
        (MR(r) /\ ~Verified(r) /\ Done(r))
            => (req[r].resp.http >= 400 /\ req[r].resp.http <= 499)

\* C3 amended: a request mr_stripe could not verify is answered with HTTP 200
\* and the body {status: error, message: <the exception>}; no exception
\* leaves the handler.
C3_VerificationFailureAcked ==
    \A r \in Slots :
        (MR(r) /\ ~Verified(r) /\ Done(r))
            => /\ req[r].resp.http = 200
               /\ ~req[r].resp.escaped
               /\ req[r].resp.status = "error"
               /\ req[r].resp.message \in {"SignatureVerificationError", "ValueError"}

\* Requests rejected for a bad signature and for a malformed payload have
\* both been answered.
C3_Witness ==
    \E r, q \in Slots :
        /\ MR(r) /\ Done(r) /\ req[r].sig = "invalid_signature"
        /\ MR(q) /\ Done(q) /\ req[q].sig = "malformed_payload"

\* C4: in both handlers, a request whose verification fails makes no
\* collaborator call and no normalizer call, and process_single_payment is
\* not entered; so every request with a call was verified.
C4_NoSideEffectUnverified ==
    \A r \in Slots :
        (req[r].pc # "idle" /\ ~Verified(r))
            => /\ req[r].calls = <<>>
               /\ ~req[r].norm.called
               /\ req[r].single = Null
               /\ req[r].collab = "none"
               /\ req[r].pc \in {"received", "done"}

\* An unverifiable request has ended in each of the two handlers.
C4_Witness ==
    \E r, q \in Slots :
        /\ req[r].handler = "mr_stripe" /\ Done(r) /\ ~Verified(r)
        /\ req[q].handler = "stripe_payments" /\ Done(q) /\ ~Verified(q)

\* C5: a verified invoice.paid that mr_stripe has handled was normalized to
\* subscription_renewed and forwarded to process_subscription_event.
C5_RenewalForwarded ==
    \A r \in Slots :
        (MR(r) /\ Verified(r) /\ Handled(r) /\ Ev(r).type = "invoice.paid")
            => /\ req[r].norm.called
               /\ ~req[r].norm.result.raised
               /\ req[r].norm.result.value.event_type = "subscription_renewed"
               /\ OpsOf(r) = {"process_subscription_event"}

\* C6: every call of the normalizer returns; the domain type is the mapped
\* one for a recognized event and absent for any other.
C6_NormalizerTotal ==
    \A r \in Slots :
        req[r].norm.called
            => /\ ~req[r].norm.result.raised
               /\ req[r].norm.result.value.event_type =
                     (IF Recognized(Ev(r)) THEN ExpectedDomainType(Ev(r)) ELSE Null)

\* C7: a verified delivery of a recognized event to mr_stripe makes exactly
\* one collaborator call, the one its type and mode select; no delivery makes
\* two.
C7_ExactlyOneRouting ==
    \A r \in Slots :
        /\ Len(req[r].calls) <= 1
        /\ (MR(r) /\ Verified(r) /\ Done(r) /\ Recognized(Ev(r)))
              => /\ Len(req[r].calls) = 1
                 /\ req[r].calls[1].op = ExpectedOp(Ev(r))

\* C8: a verified event outside the recognized set makes mr_stripe call no
\* collaborator, and it is answered {status: success} with no exception.
C8_UnrecognizedIgnored ==
    \A r \in Slots :
        (MR(r) /\ Verified(r) /\ Handled(r) /\ ~Recognized(Ev(r)))
            => /\ Done(r)
               /\ req[r].calls = <<>>
               /\ req[r].collab = "none"
               /\ req[r].resp.http = 200
               /\ req[r].resp.status = "success"
               /\ ~req[r].resp.escaped

\* An event of an unknown type and a checkout of mode 'setup' have both been
\* answered.
C8_Witness ==
    \E r, q \in Slots :
        /\ MR(r) /\ Verified(r) /\ Done(r) /\ req[r].eid = "evt_other"
        /\ MR(q) /\ Verified(q) /\ Done(q) /\ req[q].eid = "evt_setup"
           /\ req[q].norm.called

\* C9: when mr_stripe handles a verified delivery of an event for which a
\* collaborator has raised before, it invokes the collaborator again.
C9_RetryNotPoisoned ==
    [][\A r \in Slots :
          ( /\ req[r].pc = "received" /\ req'[r].pc # "received"
            /\ req[r].handler = "mr_stripe" /\ Verified(r)
            /\ failed[req[r].eid] )
          => /\ invoked'[req[r].eid] = invoked[req[r].eid] + 1
             /\ req'[r].pc \in {"await_purchase", "await_subscription"}
             /\ Len(req'[r].calls) = 1]_vars

\* The only request in flight is a delivery of an event whose collaborator
\* raised before, and the collaborator has been invoked for it again.
C9_Witness ==
    \E r \in Slots :
        /\ MR(r) /\ Verified(r)
        /\ req[r].pc \in {"await_purchase", "await_subscription"}
        /\ failed[req[r].eid]
        /\ invoked[req[r].eid] = 2
        /\ \A q \in Slots \ {r} : req[q].pc = "idle"

\* The purchase call of request r carries the session's fields: the amount
\* is amount_total in major units, to the cent.
PurchaseCallMapped(r) ==
    LET session == Ev(r).object
        args == req[r].calls[1].args
    IN  /\ Len(req[r].calls) = 1
        /\ req[r].calls[1].op = "process_purchase"
        /\ args.user_id = session.client_reference_id
        /\ args.transaction_id = session.id
        /\ args.amount.hundredths \in 0..99
        /\ args.amount.units * 100 + args.amount.hundredths = session.amount_total
        /\ args.currency = session.currency
        /\ args.metadata = session.metadata

IsPaymentCheckout(event) ==
    event.type = "checkout.session.completed" /\ event.object.mode = "payment"

\* C10 as stated: for a verified payment checkout process_single_payment
\* calls process_purchase with the mapped fields and returns True; for any
\* other event it calls nothing and returns False.
C10_MappedThenTrue ==
    \A r \in Slots :
        (MR(r) /\ Verified(r) /\ Done(r))
            => IF IsPaymentCheckout(Ev(r))
               THEN PurchaseCallMapped(r) /\ req[r].single = "True"
               ELSE "process_purchase" \notin OpsOf(r) /\ req[r].single = "False"

\* C10 amended: for a verified payment checkout process_single_payment calls
\* process_purchase with the mapped fields; it returns True when that call
\* returns and re-raises when that call raises; for any other event it calls
\* nothing and returns False.
C10_MappedThenTrueOrReraise ==
    \A r \in Slots :
        (MR(r) /\ Verified(r) /\ Handled(r))
            => IF IsPaymentCheckout(Ev(r))
               THEN /\ PurchaseCallMapped(r)
                    /\ Done(r) =>
                         req[r].single =
                            (IF req[r].collab = "returned" THEN "True" ELSE "raised")
                    /\ Done(r) => req[r].collab \in {"returned", "raised"}
               ELSE "process_purchase" \notin OpsOf(r) /\ req[r].single = "False"

\* One payment checkout has ended with True and another with the exception
\* re-raised.
C10_Witness ==
    \E r, q \in Slots :
        /\ MR(r) /\ Verified(r) /\ Done(r) /\ req[r].eid = "evt_pay2"
           /\ req[r].single = "True"
        /\ MR(q) /\ Verified(q) /\ Done(q) /\ req[q].eid = "evt_pay"
           /\ req[q].single = "raised"

\* The guards of the refund, in terms of what the call was given and what the
\* provider answered: a latest invoice, a charge on it, and a requested
\* amount whose whole cents do not exceed amount_paid.
RefundGuardsPassed ==
    /\ refund.sub_found /\ refund.latest_invoice # Null
    /\ refund.inv_found /\ refund.charge # Null
    /\ refund.amount.finite
    /\ refund.amount.mills < (refund.amount_paid + 1) * 10

\* C11: a call of issue_stripe_refund calls Refund.create at most once, and
\* only after it found a latest invoice and a charge and the requested cents
\* do not exceed amount_paid; in every other case no refund is created, and
\* whenever no refund was created the call returns success = False; no
\* exception leaves the call.
C11_RefundGuard ==
    /\ refund.creates <= 1
    /\ refund.created <= refund.creates
    /\ refund.creates = 1 =>
         /\ RefundGuardsPassed
         /\ refund.cents <= refund.amount_paid
         /\ refund.pc \in {"create_refund", "returned"}
    /\ refund.pc = "create_refund" => refund.creates = 1
    /\ refund.pc = "returned" =>
         /\ ~refund.escaped
         /\ ~RefundGuardsPassed =>
               (refund.creates = 0 /\ refund.created = 0 /\ ~refund.result.success)
         /\ refund.result.success <=> refund.created = 1

\* A refund of 5.001 against an invoice of 500 cents paid has been created,
\* for 500 cents, and the call returned success.
C11_Witness ==
    /\ refund.pc = "returned"
    /\ refund.result.success
    /\ refund.amount = Amount(5001)
    /\ refund.amount_paid = 500
    /\ refund.cents = 500
    /\ refund.creates = 1

====
